---------------------------- MODULE Spec2Model ----------------------------
(***************************************************************************)
(* Burning Ship zoom renderer (src/src/main.rs, burning_ship_frac.rs,      *)
(* painter.rs): the escape-time iteration, the zoom-window geometry, the   *)
(* frame builder and the burst orchestrator.                               *)
(*                                                                         *)
(* Numbers.  The program computes in f64.  The model computes in a small   *)
(* binary-free stand-in with the same shape: a finite value is an integer  *)
(* count of 1/Quantum units, every multiplication and division rounds to   *)
(* the nearest representable value (ties to even), a result beyond MaxMag  *)
(* units overflows to an infinity, and infinity - infinity, 0 * infinity   *)
(* and 0 / 0 give NaN, which compares false with everything.               *)
(* The u16 and u8 arithmetic of the driver keeps its width: an overflow    *)
(* panics in a build with overflow checks ("debug") and wraps in one       *)
(* without ("release").                                                    *)
(***************************************************************************)
EXTENDS Integers, Sequences, FiniteSets, Bags, TLC

----------------------------------------------------------------------------
(* Bounds of the model *)

\* representable steps per unit of the number format
Quantum == 100
\* largest finite magnitude of the number format, in 1/Quantum units
MaxMag == 30000
\* extra scale powf works at before it rounds its result
PowGuard == 100000
\* raster the model renders (main.rs renders 4000 x 2300)
ImgWidth == 4
ImgHeight == 3
\* deepest frame index the single-frame specification draws
MaxFrameIndex == 48
\* sink failures the environment injects in one run
MaxSinkFaults == 1
\* largest burst count the run specification draws
MaxBursts == 3
\* outcomes of the random generator the palette is drawn from
NumSeeds == 1

----------------------------------------------------------------------------
(* Program constants *)

MAX_ITERATIONS == 100
chunk_size == 4

U16 == 2^16
U8 == 2^8

----------------------------------------------------------------------------
(* The number format *)

PosInf == MaxMag + 1
NegInf == -(MaxMag + 1)
NaN == MaxMag + 2

IsNaN(x) == x = NaN
is_infinite(x) == x = PosInf \/ x = NegInf
IsFinite(x) == ~IsNaN(x) /\ ~is_infinite(x)

Saturate(n) == IF n > MaxMag THEN PosInf ELSE IF n < -MaxMag THEN NegInf ELSE n

\* n / d for d > 0, rounded to the nearest integer, ties to even
RoundDiv(n, d) ==
    LET q == n \div d
        r == n % d
    IN  IF 2 * r < d THEN q
        ELSE IF 2 * r > d THEN q + 1
        ELSE IF q % 2 = 0 THEN q ELSE q + 1

\* a decimal literal of the source, given in hundredths
Dec(hundredths) == Saturate(RoundDiv(hundredths * Quantum, 100))
\* an integer converted to the number format (x as f64)
FromInt(n) == Saturate(n * Quantum)

FNeg(x) == IF IsNaN(x) THEN NaN ELSE -x

FAbs(x) == IF IsNaN(x) THEN NaN ELSE IF x < 0 THEN -x ELSE x

FAdd(x, y) ==
    IF IsNaN(x) \/ IsNaN(y) THEN NaN
    ELSE IF is_infinite(x) /\ is_infinite(y) THEN (IF x = y THEN x ELSE NaN)
    ELSE IF is_infinite(x) THEN x
    ELSE IF is_infinite(y) THEN y
    ELSE Saturate(x + y)

FSub(x, y) == FAdd(x, FNeg(y))

Sign(x) == IF x > 0 THEN 1 ELSE IF x < 0 THEN -1 ELSE 0

FMul(x, y) ==
    IF IsNaN(x) \/ IsNaN(y) THEN NaN
    ELSE IF is_infinite(x) \/ is_infinite(y)
         THEN (IF x = 0 \/ y = 0 THEN NaN
               ELSE IF Sign(x) * Sign(y) > 0 THEN PosInf ELSE NegInf)
    ELSE Saturate(RoundDiv(x * y, Quantum))

FDiv(x, y) ==
    IF IsNaN(x) \/ IsNaN(y) THEN NaN
    ELSE IF is_infinite(x)
         THEN (IF is_infinite(y) THEN NaN
               ELSE IF Sign(x) * (IF y < 0 THEN -1 ELSE 1) > 0 THEN PosInf ELSE NegInf)
    ELSE IF is_infinite(y) THEN 0
    ELSE IF y = 0
         THEN (IF x = 0 THEN NaN ELSE IF x > 0 THEN PosInf ELSE NegInf)
    ELSE IF y > 0 THEN Saturate(RoundDiv(x * Quantum, y))
    ELSE Saturate(RoundDiv((-x) * Quantum, -y))

\* x < y of f64: false as soon as one side is NaN
FLt(x, y) == ~IsNaN(x) /\ ~IsNaN(y) /\ x < y

\* s times base, n times over, each product rounded; the n factors are
\* taken in two halves, which keeps the evaluation shallow
RECURSIVE PowIter(_, _, _)
PowIter(s, base, n) ==
    IF n = 0 \/ s = 0 THEN s
    ELSE IF n = 1 THEN RoundDiv(s * base, Quantum)
    ELSE PowIter(PowIter(s, base, n \div 2), base, n - (n \div 2))

\* base.powf(n as f64) for a base in [0, 1] and a frame number n: the power
\* is formed at PowGuard times the format's resolution and rounded once
powf(base, n) ==
    IF ~IsFinite(base) THEN NaN
    ELSE Saturate(RoundDiv(PowIter(Quantum * PowGuard, base, n), PowGuard))

----------------------------------------------------------------------------
(* burning_ship_frac.rs *)

sqr(x) == FMul(x, x)

\* whether a call of calculate_next_z on prev returns through its
\* infinity short-circuit
InfinityBranch(prev) == is_infinite(sqr(prev.a)) \/ is_infinite(sqr(prev.b))

calculate_next_z(constant, prev) ==
    LET sqr_a == sqr(prev.a)
        sqr_b == sqr(prev.b)
    IN  IF InfinityBranch(prev)
        THEN [a |-> PosInf, b |-> PosInf]
        ELSE [a |-> FAdd(FSub(sqr_a, sqr_b), constant.a),
              b |-> FAdd(FAbs(FMul(FMul(FromInt(2), prev.a), prev.b)), constant.b)]

orbit_contained(z) ==
    IF is_infinite(z.a) \/ is_infinite(z.b) THEN FALSE
    ELSE FLt(FAdd(sqr(z.a), sqr(z.b)), FromInt(4))

\* the pixel's constant C, which is also Z0
PixelConstant(x, y, x_step_size, y_step_size, a_floor, b_floor) ==
    [a |-> FAdd(a_floor, FMul(FromInt(x), x_step_size)),
     b |-> FAdd(b_floor, FMul(FromInt(y), y_step_size))]

\* faulty variants of the loop condition: the bound off by one, the orbit
\* test left out
LoopContinuesNoBound(i, z) == i <= MAX_ITERATIONS /\ orbit_contained(z)
LoopContinuesNoTest(i, z) == i < MAX_ITERATIONS

\* the condition of get_orbit_rate's while loop
LoopContinues(i, z) == i < MAX_ITERATIONS /\ orbit_contained(z)

\* k passes of get_orbit_rate's while loop from the locals s = [z, i], or
\* fewer if the loop stops before; the passes are taken in two halves, which
\* keeps the evaluation shallow
RECURSIVE OrbitLoop(_, _, _)
OrbitLoop(constant, s, k) ==
    IF k = 0 \/ ~LoopContinues(s.i, s.z) THEN s
    ELSE IF k = 1 THEN [z |-> calculate_next_z(constant, s.z), i |-> s.i + 1]
    ELSE OrbitLoop(constant, OrbitLoop(constant, s, k \div 2), k - (k \div 2))

\* i is a u8: the loop cannot make more than U8 - 1 passes
get_orbit_rate(x, y, x_step_size, y_step_size, a_floor, b_floor) ==
    LET constant == PixelConstant(x, y, x_step_size, y_step_size, a_floor, b_floor)
    IN  OrbitLoop(constant, [z |-> constant, i |-> 0], U8 - 1).i

\* a faulty variant: only the low end of each range moves
calc_zoomed_ranges_lopsided(starting_width, starting_height, starting_x_range, starting_y_range, frame_number, zoom_rate) ==
    LET scale == powf(zoom_rate, frame_number)
        focus_x == FDiv(FSub(starting_width, FMul(scale, starting_width)), FromInt(2))
        focus_y == FDiv(FSub(starting_height, FMul(scale, starting_height)), FromInt(2))
    IN  << <<FAdd(focus_x, starting_x_range[1]), starting_x_range[2]>>,
           <<FAdd(focus_y, starting_y_range[1]), starting_y_range[2]>> >>

calc_zoomed_ranges(starting_width, starting_height, starting_x_range, starting_y_range, frame_number, zoom_rate) ==
    LET x_floor == starting_x_range[1]
        x_ceil == starting_x_range[2]
        y_floor == starting_y_range[1]
        y_ceil == starting_y_range[2]
        scale == powf(zoom_rate, frame_number)
        curr_width == FMul(scale, starting_width)
        curr_height == FMul(scale, starting_height)
        focus_x == FDiv(FSub(starting_width, curr_width), FromInt(2))
        focus_y == FDiv(FSub(starting_height, curr_height), FromInt(2))
    IN  << <<FAdd(focus_x, x_floor), FAdd(FNeg(focus_x), x_ceil)>>,
           <<FAdd(focus_y, y_floor), FAdd(FNeg(focus_y), y_ceil)>> >>

\* Iterator::collect: the vector whose elements the iterator yields, each
\* computed once
collect(iter) == iter @@ <<>>

map_row(row_index, img_width, x_step_size, y_step_size, x_range, y_range) ==
    collect([col \in 1..img_width |->
        get_orbit_rate(col - 1, row_index, x_step_size, y_step_size,
                       x_range[1], y_range[1])])

gen_burning_ship_fractal(img_width, img_height, x_range, y_range, x_step_size, y_step_size) ==
    collect([row \in 1..img_height |->
        map_row(row - 1, img_width, x_step_size, y_step_size, x_range, y_range)])

calc_step_size(img_width, img_height, x_range, y_range) ==
    LET step_width == FAbs(FSub(x_range[2], x_range[1]))
        step_height == FAbs(FSub(y_range[2], y_range[1]))
    IN  <<FDiv(step_width, FromInt(img_width)), FDiv(step_height, FromInt(img_height))>>

calc_box_height_width(starting_x_range, starting_y_range) ==
    <<FAbs(FSub(starting_x_range[2], starting_x_range[1])),
      FAbs(FSub(starting_y_range[2], starting_y_range[1]))>>

build_frame(img_width, img_height, starting_x_range, starting_y_range, frame_number, zoom_rate) ==
    LET box == calc_box_height_width(starting_x_range, starting_y_range)
        ranges == calc_zoomed_ranges(box[1], box[2], starting_x_range,
                                     starting_y_range, frame_number, zoom_rate)
        steps == calc_step_size(img_width, img_height, ranges[1], ranges[2])
    IN  gen_burning_ship_fractal(img_width, img_height, ranges[1], ranges[2],
                                 steps[1], steps[2])

----------------------------------------------------------------------------
(* main.rs: the run-wide values main fixes *)

starting_x_range == <<Dec(-345), Dec(5)>>
starting_y_range == <<Dec(-99), Dec(99)>>
zoom_rate == Dec(96)


\* the grids of the frames a bounded run renders, each built once
FrameCache ==
    collect([n \in 0..(chunk_size * (MaxBursts + 1)) |->
        build_frame(ImgWidth, ImgHeight, starting_x_range, starting_y_range,
                    n, zoom_rate)])

\* build_frame as map_frames_to_fractals calls it
FrameOf(n) ==
    IF n \in DOMAIN FrameCache THEN FrameCache[n]
    ELSE build_frame(ImgWidth, ImgHeight, starting_x_range, starting_y_range,
                     n, zoom_rate)

----------------------------------------------------------------------------
(* Integer arithmetic of the driver *)

Builds == {"debug", "release"}

\* a u16 result: out of range, it panics under overflow checks and wraps without
CheckedU16(b, n) ==
    IF n >= 0 /\ n < U16 THEN [panic |-> FALSE, val |-> n]
    ELSE IF b = "debug" THEN [panic |-> TRUE, val |-> 0]
    ELSE [panic |-> FALSE, val |-> n % U16]

CheckedU8(b, n) ==
    IF n >= 0 /\ n < U8 THEN [panic |-> FALSE, val |-> n]
    ELSE IF b = "debug" THEN [panic |-> TRUE, val |-> 0]
    ELSE [panic |-> FALSE, val |-> n % U8]

\* first_frame, last_frame of burst i, and the last_frame - 1 that
\* gen_and_save_frames prints
BurstBounds(b, burst) ==
    LET ff == CheckedU16(b, burst * chunk_size)
        lf == CheckedU16(b, ff.val + chunk_size)
        shown == CheckedU16(b, lf.val - 1)
    IN  [panic |-> ff.panic \/ lf.panic \/ shown.panic,
         first_frame |-> ff.val, last_frame |-> lf.val, shown_last |-> shown.val]

\* (first_frame..last_frame).collect()
RangeU16(lo, hi) == collect([k \in 1..(IF hi > lo THEN hi - lo ELSE 0) |-> lo + k - 1])

\* a faulty variant: the position alone
FrameNumberNoBase(idx, first) == idx % U16

\* the frame number map_fractal_to_img_io_results gives the grid at index
\* idx: a usize sum cast to u16
FrameNumber(idx, first) == (idx + first) % U16

----------------------------------------------------------------------------
(* The command line *)

Digits == <<"0", "1", "2", "3", "4", "5", "6", "7", "8", "9">>
DigitChars == {Digits[k] : k \in 1..10}
DigitVal(c) == CHOOSE d \in 0..9 : Digits[d + 1] = c

RECURSIVE Decimal(_)
Decimal(n) ==
    IF n < 10 THEN <<Digits[n + 1]>>
    ELSE Append(Decimal(n \div 10), Digits[(n % 10) + 1])

RECURSIVE ParseDigits(_, _)
ParseDigits(s, acc) ==
    IF s = <<>> THEN [ok |-> TRUE, val |-> acc]
    ELSE IF Head(s) \notin DigitChars THEN [ok |-> FALSE, val |-> 0]
    ELSE LET v == acc * 10 + DigitVal(Head(s))
         IN  IF v >= U16 THEN [ok |-> FALSE, val |-> 0]
             ELSE ParseDigits(Tail(s), v)

\* a faulty variant: a word that is no number counts as 1
parse_u16_lenient(s) ==
    LET r == ParseDigits(s, 0)
    IN  IF r.ok THEN r ELSE [ok |-> TRUE, val |-> 1]

\* str::parse::<u16>: an optional "+", then one or more decimal digits whose
\* value fits 16 bits
parse_u16(s) ==
    IF s = <<>> THEN [ok |-> FALSE, val |-> 0]
    ELSE IF Len(s) = 1 /\ Head(s) \in {"+", "-"} THEN [ok |-> FALSE, val |-> 0]
    ELSE IF Head(s) = "+" THEN ParseDigits(Tail(s), 0)
    ELSE ParseDigits(s, 0)

\* argument vectors: the program name, then what the user typed
BadWords ==
    { <<>>, <<"x">>, <<"-", "1">>, <<"2", "x">>, <<"1", ".", "5">>,
      <<"6", "5", "5", "3", "6">> }
ArgVectors ==
    { <<"prog">> }
    \cup { <<"prog", w>> : w \in BadWords }
    \cup { <<"prog", Decimal(n)>> : n \in 0..MaxBursts }
    \cup { <<"prog", <<"+", "1">> >>, <<"prog", <<"0", "2">>, <<"7">> >> }

\* burst counts past the point where a frame number leaves 16 bits
WideBursts == {16383, 16384, 16385}
WideArgVectors == ArgVectors \cup { <<"prog", Decimal(n)>> : n \in WideBursts }

----------------------------------------------------------------------------
(* painter.rs *)

\* one colour of the random generator: three bytes
generate_random_color(seed, k) ==
    <<(seed * 89 + k * 37) % 256, (seed * 53 + k * 101) % 256, (seed * 17 + k * 7) % 256>>

\* a faulty variant: number_of_colors colours, one short
generate_random_palette_short(b, seed, number_of_colors) ==
    [panic |-> FALSE,
     colors |-> collect([k \in 1..number_of_colors |-> generate_random_color(seed, k - 1)])]

generate_random_palette(b, seed, number_of_colors) ==
    LET bound == CheckedU8(b, number_of_colors + 1)
    IN  [panic |-> bound.panic,
         colors |-> collect([k \in 1..bound.val |-> generate_random_color(seed, k - 1)])]

\* palette.get(cell) is Some
PaletteHas(pal, cell) == cell + 1 \in DOMAIN pal

paint_frame(width, height, frame, pal) ==
    IF \E r \in DOMAIN frame : \E c \in DOMAIN frame[r] :
            ~PaletteHas(pal, frame[r][c]) \/ c > width \/ r > height
    THEN [panic |-> TRUE, img |-> <<>>]
    ELSE [panic |-> FALSE,
          img |-> collect([r \in 1..height |-> collect([c \in 1..width |->
                     IF r \in DOMAIN frame /\ c \in DOMAIN frame[r]
                     THEN pal[frame[r][c] + 1] ELSE <<0, 0, 0>>])])]

\* format!("frames/{:08}.png", frame_number)
FramePath(frame_number) ==
    <<"frames/">> \o [k \in 1..8 |-> Digits[((frame_number \div 10^(8 - k)) % 10) + 1]]
        \o <<".png">>


----------------------------------------------------------------------------
(* The history of a run *)

\* the frame numbers handed to the sink so far, kept as runs <<lo, hi>> of
\* consecutive numbers: runs, extended by the count numbers from lo on
Handed(runs, lo, count) ==
    IF count = 0 THEN runs
    ELSE IF runs # <<>> /\ runs[Len(runs)][2] + 1 = lo
         THEN [runs EXCEPT ![Len(runs)] = <<runs[Len(runs)][1], lo + count - 1>>]
         ELSE Append(runs, <<lo, lo + count - 1>>)

----------------------------------------------------------------------------
(* State *)

VARIABLES
    args,           \* env::args()
    build,          \* whether the build checks integer overflow
    pc,             \* where main is
    exit_status,    \* the process's exit status, -1 while it runs
    stdout,         \* the lines printed so far
    palette,        \* main's palette
    bursts,         \* main's bursts
    burst_index,    \* main's loop variable i
    first_frame,    \* gen_and_save_frames' first_frame
    last_frame,     \* gen_and_save_frames' last_frame
    frames,         \* gen_and_save_frames' Vec<u16> of frame indices
    fractals,       \* the Vec<Fractal> being collected, <<>> at a slot not yet built
    frame_results,  \* the Vec<ImgResult> being collected
    sinkCalls,      \* every call of paint_and_save_frame's save so far (a bag)
    files,          \* the frames/ directory: path -> image
    handed,         \* the frame numbers handed to the sink, in burst order, as runs <<lo, hi>>
    fpc,            \* single frame: where build_frame is
    cur_frame,      \* single frame: build_frame's frame_number
    win,            \* single frame: the zoomed ranges and the step sizes
    orbit,          \* single frame: get_orbit_rate's locals
    rate            \* single frame: get_orbit_rate's result, -1 before it returns

runVars ==
    <<args, build, pc, exit_status, stdout, palette, bursts, burst_index, first_frame,
      last_frame, frames, fractals, frame_results, sinkCalls, files, handed>>
frameVars == <<fpc, cur_frame, win, orbit, rate>>
vars == <<runVars, frameVars>>

NoGrid == <<>>
NoWin == [x_range |-> <<0, 0>>, y_range |-> <<0, 0>>, x_step_size |-> 0, y_step_size |-> 0]
NoOrbit ==
    [x |-> 0, y |-> 0, constant |-> [a |-> 0, b |-> 0], z |-> [a |-> 0, b |-> 0],
     i |-> 0, z_in |-> [a |-> 0, b |-> 0], short_circuits |-> 0]

Line(kind, a, b) == [kind |-> kind, first |-> a, last |-> b]

RunIdle ==
    /\ args = <<"prog">>
    /\ build = "release"
    /\ pc = "idle"
    /\ exit_status = -1
    /\ stdout = <<>>
    /\ palette = <<>>
    /\ bursts = 0
    /\ burst_index = 0
    /\ first_frame = 0
    /\ last_frame = 0
    /\ frames = <<>>
    /\ fractals = <<>>
    /\ frame_results = <<>>
    /\ sinkCalls = EmptyBag
    /\ files = <<>>
    /\ handed = <<>>

FrameIdle ==
    /\ fpc = "idle"
    /\ cur_frame = 0
    /\ win = NoWin
    /\ orbit = NoOrbit
    /\ rate = -1

RunStart(vectors) ==
    /\ args \in vectors
    /\ build \in Builds
    /\ pc = "main"
    /\ exit_status = -1
    /\ stdout = <<>>
    /\ palette = <<>>
    /\ bursts = 0
    /\ burst_index = 0
    /\ first_frame = 0
    /\ last_frame = 0
    /\ frames = <<>>
    /\ fractals = <<>>
    /\ frame_results = <<>>
    /\ sinkCalls = EmptyBag
    /\ files = <<>>
    /\ handed = <<>>

Init == RunStart(ArgVectors) /\ FrameIdle

----------------------------------------------------------------------------
(* main *)

Panic ==
    /\ pc' = "panicked"
    /\ exit_status' = 101

\* main.rs 123-125
GeneratePalette ==
    /\ pc = "main"
    /\ \E seed \in 1..NumSeeds :
         LET made == generate_random_palette(build, seed, MAX_ITERATIONS)
         IN  IF made.panic
             THEN Panic /\ UNCHANGED palette
             ELSE /\ palette' = made.colors
                  /\ pc' = "args"
                  /\ UNCHANGED exit_status
    /\ UNCHANGED <<args, build, stdout, bursts, burst_index, first_frame, last_frame, frames,
                   fractals, frame_results, sinkCalls, files, handed>>
    /\ UNCHANGED frameVars

\* main.rs 127-132: no argument
ArgMissing ==
    /\ pc = "args"
    /\ Len(args) < 2
    /\ stdout' = Append(stdout, Line("Did not specifiy burst argument! Program terminating", 0, 0))
    /\ pc' = "exited"
    /\ exit_status' = 1
    /\ UNCHANGED <<args, build, palette, bursts, burst_index, first_frame, last_frame, frames,
                   fractals, frame_results, sinkCalls, files, handed>>
    /\ UNCHANGED frameVars

\* main.rs 133-137: an argument that is no u16
ArgInvalid ==
    /\ pc = "args"
    /\ Len(args) >= 2
    /\ ~parse_u16(args[2]).ok
    /\ stdout' = Append(stdout, Line("Failed to parse burst argument!", 0, 0))
    /\ pc' = "exited"
    /\ exit_status' = 1
    /\ UNCHANGED <<args, build, palette, bursts, burst_index, first_frame, last_frame, frames,
                   fractals, frame_results, sinkCalls, files, handed>>
    /\ UNCHANGED frameVars

\* main.rs 128-143: the argument parsed, the loop begins
ArgParsed ==
    /\ pc = "args"
    /\ Len(args) >= 2
    /\ parse_u16(args[2]).ok
    /\ bursts' = parse_u16(args[2]).val
    /\ burst_index' = 0
    /\ pc' = "loop"
    /\ UNCHANGED <<args, build, exit_status, stdout, palette, first_frame, last_frame,
                   frames, fractals, frame_results, sinkCalls, files, handed>>
    /\ UNCHANGED frameVars

\* main.rs 143-146 and 82-83: one more burst; its bounds, its frame indices
\* and the line that announces it
StartBurst ==
    /\ pc = "loop"
    /\ burst_index < bursts
    /\ LET b == BurstBounds(build, burst_index)
       IN  IF b.panic
           THEN /\ Panic
                /\ UNCHANGED <<first_frame, last_frame, frames, fractals, stdout>>
           ELSE /\ first_frame' = b.first_frame
                /\ last_frame' = b.last_frame
                /\ frames' = RangeU16(b.first_frame, b.last_frame)
                /\ fractals' = [k \in DOMAIN frames' |-> NoGrid]
                /\ stdout' = Append(stdout, Line("GENERATING FRAMES", b.first_frame, b.shown_last))
                /\ pc' = "gen"
                /\ UNCHANGED exit_status
    /\ UNCHANGED <<args, build, palette, bursts, burst_index, frame_results, sinkCalls, files, handed>>
    /\ UNCHANGED frameVars

\* a faulty variant: results land in completion order
ResultSlotFirstFree(p, slots) ==
    CHOOSE q \in DOMAIN slots : slots[q] = NoGrid /\ \A r \in 1..(q - 1) : slots[r] # NoGrid

\* the position of the collected vector that receives the result of the
\* worker mapping input position p (an indexed parallel collect)
ResultSlot(p, slots) == p

\* main.rs 27-38: one rayon worker maps one frame index
BuildWorker(p) ==
    /\ pc = "gen"
    /\ p \in DOMAIN frames
    /\ fractals[p] = NoGrid
    /\ fractals' = [fractals EXCEPT ![ResultSlot(p, fractals)] = FrameOf(frames[p])]
    /\ UNCHANGED <<args, build, pc, exit_status, stdout, palette, bursts, burst_index, first_frame,
                   last_frame, frames, frame_results, sinkCalls, files, handed>>
    /\ UNCHANGED frameVars

AllBuilt(slots) == \A p \in DOMAIN slots : slots[p] # NoGrid

\* main.rs 38, 86-95: collect() returns once every worker has
CollectFractals ==
    /\ pc = "gen"
    /\ AllBuilt(fractals)
    /\ frame_results' = [k \in DOMAIN fractals |-> "pending"]
    /\ pc' = "save"
    /\ UNCHANGED <<args, build, exit_status, stdout, palette, bursts, burst_index, first_frame,
                   last_frame, frames, fractals, sinkCalls, files, handed>>
    /\ UNCHANGED frameVars

SinkFaults(calls) == Cardinality({c \in BagToSet(calls) : ~c.ok})

\* main.rs 55-64, painter.rs 76-87: one rayon worker paints one grid and
\* hands it to the sink, which succeeds or fails
SaveWorker(p) ==
    /\ pc = "save"
    /\ p \in DOMAIN frame_results
    /\ frame_results[p] = "pending"
    /\ LET n == FrameNumber(p - 1, first_frame)
           painted == paint_frame(ImgWidth, ImgHeight, fractals[p], palette)
       IN  IF painted.panic
           THEN /\ Panic
                /\ UNCHANGED <<frame_results, sinkCalls, files>>
           ELSE /\ \E ok \in (IF SinkFaults(sinkCalls) < MaxSinkFaults
                              THEN BOOLEAN ELSE {TRUE}) :
                     /\ sinkCalls' = sinkCalls (+) SetToBag({[burst |-> burst_index, pos |-> p - 1,
                                         frame_number |-> n, frame |-> fractals[p],
                                         ok |-> ok]})
                     /\ files' = IF ok THEN (FramePath(n) :> painted.img) @@ files
                                 ELSE files
                     /\ frame_results' = [frame_results EXCEPT ![p] =
                                             IF ok THEN "Ok" ELSE "Err"]
                /\ UNCHANGED <<pc, exit_status>>
    /\ UNCHANGED <<args, build, stdout, palette, bursts, burst_index, first_frame, last_frame,
                   frames, fractals, handed>>
    /\ UNCHANGED frameVars

\* a faulty variant: the collect returns on the first result
AnySaved(results) == results = <<>> \/ \E p \in DOMAIN results : results[p] # "pending"

\* every worker of the second collect has returned
AllSaved(results) == \A p \in DOMAIN results : results[p] # "pending"

\* main.rs 65, 96-114: the second collect() returns, the grids and the
\* results are dropped, the timings are printed, the burst is over
FinishBurst ==
    /\ pc = "save"
    /\ AllSaved(frame_results)
    /\ stdout' = Append(stdout, Line("Finished generating frames / painting frames / Total Time", 0, 0))
    /\ frames' = <<>>
    /\ fractals' = <<>>
    /\ frame_results' = <<>>
    /\ burst_index' = burst_index + 1
    /\ handed' = Handed(handed, FrameNumber(0, first_frame), Len(frame_results))
    /\ pc' = "loop"
    /\ UNCHANGED <<args, build, exit_status, palette, bursts, first_frame, last_frame,
                   sinkCalls, files>>
    /\ UNCHANGED frameVars

\* main.rs 143, 157: the loop is over
Finish ==
    /\ pc = "loop"
    /\ burst_index >= bursts
    /\ stdout' = Append(stdout, Line("Total Runtime", 0, 0))
    /\ pc' = "done"
    /\ exit_status' = 0
    /\ UNCHANGED <<args, build, palette, bursts, burst_index, first_frame, last_frame, frames,
                   fractals, frame_results, sinkCalls, files, handed>>
    /\ UNCHANGED frameVars

Next ==
    \/ GeneratePalette
    \/ ArgMissing
    \/ ArgInvalid
    \/ ArgParsed
    \/ StartBurst
    \/ \E p \in 1..chunk_size : BuildWorker(p)
    \/ CollectFractals
    \/ \E p \in 1..chunk_size : SaveWorker(p)
    \/ FinishBurst
    \/ Finish

Spec == Init /\ [][Next]_vars

----------------------------------------------------------------------------
(* The driver alone: main's loop with each burst taken as one step.  It     *)
(* follows the frame numbers only; the grids, the images and the lines a    *)
(* burst prints are left out, so that burst counts in the tens of thousands *)
(* can be run.                                                              *)

InitDriver == RunStart(WideArgVectors) /\ FrameIdle

\* main.rs 143-156 with gen_and_save_frames 71-114: burst i from its bounds
\* to the return of its last sink call
DriverBurst ==
    /\ pc = "loop"
    /\ burst_index < bursts
    /\ LET b == BurstBounds(build, burst_index)
           indices == RangeU16(b.first_frame, b.last_frame)
       IN  IF b.panic
           THEN /\ Panic
                /\ UNCHANGED <<first_frame, last_frame, handed, burst_index>>
           ELSE /\ first_frame' = b.first_frame
                /\ last_frame' = b.last_frame
                /\ handed' = Handed(handed, FrameNumber(0, b.first_frame), Len(indices))
                /\ burst_index' = burst_index + 1
                /\ UNCHANGED <<pc, exit_status>>
    /\ UNCHANGED <<args, build, stdout, palette, bursts, frames, fractals, frame_results,
                   sinkCalls, files>>
    /\ UNCHANGED frameVars

NextDriver ==
    \/ GeneratePalette
    \/ ArgMissing
    \/ ArgInvalid
    \/ ArgParsed
    \/ DriverBurst
    \/ Finish

SpecDriver == InitDriver /\ [][NextDriver]_vars

----------------------------------------------------------------------------
(* One frame, step by step: build_frame for one frame number, one pixel at *)
(* a time, get_orbit_rate one pass of its loop at a time.                   *)

InitFrame ==
    /\ RunIdle
    /\ fpc = "start"
    /\ cur_frame \in 0..MaxFrameIndex
    /\ win = NoWin
    /\ orbit = NoOrbit
    /\ rate = -1

\* burning_ship_frac.rs 241-266: the zoomed window and its step sizes
ZoomWindow ==
    /\ fpc = "start"
    /\ LET box == calc_box_height_width(starting_x_range, starting_y_range)
           ranges == calc_zoomed_ranges(box[1], box[2], starting_x_range,
                                        starting_y_range, cur_frame, zoom_rate)
           steps == calc_step_size(ImgWidth, ImgHeight, ranges[1], ranges[2])
       IN  win' = [x_range |-> ranges[1], y_range |-> ranges[2],
                   x_step_size |-> steps[1], y_step_size |-> steps[2]]
    /\ fpc' = "pixels"
    /\ UNCHANGED <<cur_frame, orbit, rate>>
    /\ UNCHANGED runVars

\* burning_ship_frac.rs 81-91: get_orbit_rate is entered for pixel (x, y)
OrbitStart(x, y) ==
    /\ fpc = "pixels"
    /\ LET c == PixelConstant(x, y, win.x_step_size, win.y_step_size,
                              win.x_range[1], win.y_range[1])
       IN  orbit' = [x |-> x, y |-> y, constant |-> c, z |-> c, i |-> 0,
                     z_in |-> c, short_circuits |-> 0]
    /\ rate' = -1
    /\ fpc' = "loop"
    /\ UNCHANGED <<cur_frame, win>>
    /\ UNCHANGED runVars

\* burning_ship_frac.rs 93-96: one pass of the while loop; z_in remembers
\* the z handed to calculate_next_z, short_circuits counts the calls that
\* returned through the infinity branch
OrbitStep ==
    /\ fpc = "loop"
    /\ LoopContinues(orbit.i, orbit.z)
    /\ orbit' = [orbit EXCEPT
                    !.z = calculate_next_z(orbit.constant, orbit.z),
                    !.i = orbit.i + 1,
                    !.z_in = orbit.z,
                    !.short_circuits = orbit.short_circuits +
                                       (IF InfinityBranch(orbit.z) THEN 1 ELSE 0)]
    /\ UNCHANGED <<fpc, cur_frame, win, rate>>
    /\ UNCHANGED runVars

\* burning_ship_frac.rs 93, 97: the loop condition fails, i is returned
OrbitReturn ==
    /\ fpc = "loop"
    /\ ~LoopContinues(orbit.i, orbit.z)
    /\ rate' = orbit.i
    /\ fpc' = "pixels"
    /\ UNCHANGED <<cur_frame, win, orbit>>
    /\ UNCHANGED runVars

NextFrame ==
    \/ ZoomWindow
    \/ \E x \in 0..(ImgWidth - 1) : \E y \in 0..(ImgHeight - 1) : OrbitStart(x, y)
    \/ OrbitStep
    \/ OrbitReturn

SpecFrame == InitFrame /\ [][NextFrame]_vars

----------------------------------------------------------------------------
(* Properties *)

Calls == BagToSet(sinkCalls)
CallsOf(burst) == {c \in Calls : c.burst = burst}
Built(slots) == {p \in DOMAIN slots : slots[p] # NoGrid}
CellsOf(grid) == {grid[r][c] : r \in DOMAIN grid, c \in 1..ImgWidth}

\* C1: when a run is over, the sink has been handed exactly the frame
\* numbers 0, 1, ..., bursts * chunk_size - 1, in increasing order and each
\* once, whatever burst count the command line gave.
C1_AllFramesNumbered ==
    pc \in {"done", "panicked"} =>
        handed = (IF bursts = 0 THEN <<>> ELSE << <<0, bursts * chunk_size - 1>> >>)

\* C2: while a burst is generated and saved, the collected vector has one
\* slot per frame index of [first_frame, last_frame), and every slot that is
\* filled holds the grid build_frame gives for first_frame + its position,
\* in whatever order the workers finish; once collect() has returned every
\* slot is filled.
C2_PositionalGrids ==
    pc \in {"gen", "save"} =>
        /\ Len(fractals) = last_frame - first_frame
        /\ \A p \in Built(fractals) : fractals[p] = FrameOf(first_frame + (p - 1))
        /\ pc = "save" => Built(fractals) = DOMAIN fractals

\* C2 witness: a later worker has finished before the first one, and their
\* grids differ.
C2_OutOfOrderCompletion ==
    /\ pc = "gen"
    /\ Len(fractals) = chunk_size
    /\ 1 \notin Built(fractals)
    /\ chunk_size \in Built(fractals)
    /\ FrameOf(frames[1]) # FrameOf(frames[chunk_size])

\* C3: the sink is called once for each grid of a burst and never twice;
\* the call for position i carries frame number first_frame + i and the grid
\* built for that frame index, and a call that succeeded left that grid's
\* image under that number's path.
C3_OneSinkCallPerGrid ==
    /\ \A c \in Calls :
        /\ CopiesIn(c, sinkCalls) = 1
        /\ \A d \in Calls : (d.burst = c.burst /\ d.pos = c.pos) => d = c
        /\ c.frame_number = c.burst * chunk_size + c.pos
        /\ c.burst = burst_index => c.frame_number = first_frame + c.pos
        /\ c.frame = FrameOf(c.frame_number)
        /\ c.ok => /\ FramePath(c.frame_number) \in DOMAIN files
                   /\ files[FramePath(c.frame_number)] =
                          paint_frame(ImgWidth, ImgHeight, FrameOf(c.frame_number), palette).img
    /\ pc = "save" =>
        \A p \in DOMAIN frame_results :
            (frame_results[p] # "pending") <=> (\E c \in CallsOf(burst_index) : c.pos = p - 1)
    /\ \A k \in 0..(burst_index - 1) : {c.pos : c \in CallsOf(k)} = 0..(chunk_size - 1)

\* C3 witness: every grid of a burst after the first has been handed to the
\* sink.
C3_LaterBurstSaved ==
    /\ pc = "save"
    /\ burst_index >= 1
    /\ Len(frame_results) = chunk_size
    /\ AllSaved(frame_results)

\* C4: no sink call of a burst is made while the burst is still being
\* generated, no grid of a burst exists before every sink call of every
\* earlier burst has returned, and the grids that exist are at most
\* chunk_size and all of the current burst; between bursts none exists.
C4_BurstsDoNotOverlap ==
    /\ pc = "gen" => CallsOf(burst_index) = {}
    /\ pc = "save" => Built(fractals) = DOMAIN fractals
    /\ Built(fractals) # {} =>
        /\ pc \in {"gen", "save"}
        /\ \A k \in 0..(burst_index - 1) : {c.pos : c \in CallsOf(k)} = 0..(chunk_size - 1)
        /\ \A c \in Calls : c.burst <= burst_index
    /\ Cardinality(Built(fractals)) <= chunk_size
    /\ \A p \in Built(fractals) : fractals[p] = FrameOf(burst_index * chunk_size + (p - 1))
    /\ pc \notin {"gen", "save"} => fractals = <<>>

\* C4 witness: a grid of a later burst exists.
C4_LaterBurstGenerating ==
    /\ pc = "gen"
    /\ burst_index >= 1
    /\ Built(fractals) # {}

\* the lines a run prints when nothing fails
RoutineLines ==
    {"GENERATING FRAMES", "Finished generating frames / painting frames / Total Time",
     "Total Runtime"}

\* C5: a run that finished after a sink call failed shows it: it printed a
\* line a run without failures does not print, or it exited with a status
\* other than 0.
C5_SinkFailureObservable ==
    (pc = "done" /\ \E c \in Calls : ~c.ok) =>
        \/ exit_status # 0
        \/ \E k \in DOMAIN stdout : stdout[k].kind \notin RoutineLines

\* the value of a word of decimal digits
RECURSIVE NumeralValue(_)
NumeralValue(d) ==
    IF d = <<>> THEN 0
    ELSE NumeralValue(SubSeq(d, 1, Len(d) - 1)) * 10 + DigitVal(d[Len(d)])

\* the word is a decimal numeral, with or without a "+", of a 16-bit value
IsU16Numeral(w) ==
    LET d == IF w # <<>> /\ Head(w) = "+" THEN Tail(w) ELSE w
    IN  /\ d # <<>>
        /\ \A k \in DOMAIN d : d[k] \in DigitChars
        /\ NumeralValue(d) < U16

\* C6: with the burst argument missing or no number, the run never gets
\* past reading its arguments: no frame index, no grid, no sink call, no file,
\* and when it has exited it has printed a message and its status is not 0.
\* Frame work is only ever seen with an argument that is a number.
C6_BadArgumentStopsRun ==
    LET bad == Len(args) < 2 \/ ~IsU16Numeral(args[2])
        frameWork == \/ pc \in {"loop", "gen", "save", "done"}
                     \/ frames # <<>> \/ fractals # <<>>
                     \/ sinkCalls # EmptyBag \/ files # <<>>
    IN  /\ bad => ~frameWork
        /\ (bad /\ pc \notin {"main", "args"}) =>
              /\ pc = "exited"
              /\ exit_status # 0
              /\ Len(stdout) = 1
        /\ pc = "exited" => bad

\* C6 witness: the run has exited on an argument that is no number.
C6_ExitedOnBadWord ==
    /\ pc = "exited"
    /\ Len(args) >= 2
    /\ args[2] = <<"2", "x">>

\* the squared modulus of c is at least 4, as the orbit test computes it
Escaped(c) == ~FLt(FAdd(sqr(c.a), sqr(c.b)), FromInt(4))

\* C7: get_orbit_rate's counter never passes MAX_ITERATIONS; the value it
\* returns is in 0 .. MAX_ITERATIONS, is the value of get_orbit_rate for the
\* pixel, and is 0 only when the pixel's constant fails the orbit test.
C7_EscapeTimeBounded ==
    /\ orbit.i \in 0..MAX_ITERATIONS
    /\ rate # -1 =>
        /\ rate \in 0..MAX_ITERATIONS
        /\ rate = get_orbit_rate(orbit.x, orbit.y, win.x_step_size, win.y_step_size,
                                 win.x_range[1], win.y_range[1])
        /\ rate = 0 => Escaped(orbit.constant)

\* C7 witness: a pixel whose orbit stays contained has been returned with
\* the full count.
C7_FullCountReturned ==
    /\ fpc = "pixels"
    /\ rate = MAX_ITERATIONS

\* C8: the palette main draws has MAX_ITERATIONS + 1 colours, every cell of
\* every grid built is an index into it, and no lookup fails: the run never
\* panics, and every grid handed to the sink was painted.
C8_PaletteCoversGrids ==
    /\ pc # "panicked"
    /\ pc \notin {"idle", "main"} => Len(palette) = MAX_ITERATIONS + 1
    /\ \A p \in Built(fractals) : \A cell \in CellsOf(fractals[p]) :
          cell \in 0..MAX_ITERATIONS /\ cell + 1 \in 1..Len(palette)
    /\ \A c \in Calls : \A cell \in CellsOf(c.frame) : cell + 1 \in 1..Len(palette)

\* C8 witness: a grid with a cell at MAX_ITERATIONS has been painted and
\* saved.
C8_TopIndexPainted ==
    \E c \in Calls : c.ok /\ MAX_ITERATIONS \in CellsOf(c.frame)

BaseBox == calc_box_height_width(starting_x_range, starting_y_range)
ZoomedAt(n) ==
    calc_zoomed_ranges(BaseBox[1], BaseBox[2], starting_x_range, starting_y_range,
                       n, zoom_rate)
Span(range) == range[2] - range[1]
Near(u, v) == u - v \in {-1, 0, 1}

C10_StepOnlyOnContainedZ ==
    orbit.i > 0 =>
        /\ IsFinite(orbit.z_in.a)
        /\ IsFinite(orbit.z_in.b)
        /\ ~Escaped(orbit.z_in)
        /\ ~is_infinite(sqr(orbit.z_in.a))
        /\ ~is_infinite(sqr(orbit.z_in.b))
        /\ orbit.short_circuits = 0

\* C10 witness: calculate_next_z has been called MAX_ITERATIONS times for
\* one pixel.
C10_EveryPassTaken ==
    /\ fpc = "loop"
    /\ orbit.i = MAX_ITERATIONS
    /\ orbit.short_circuits = 0

=============================================================================
